---- MODULE Spec2Model ----
(***************************************************************************)
(* Model of the pra-lang tree-walking evaluator (src/src/lib.rs): values,   *)
(* runtime errors, the environments (globals, locals), the native table     *)
(* (buildins) and the functions eval, eval_if, eval_block, eval_function    *)
(* and execute; and of the lexer (src/src/lexer.rs), an iterator over the   *)
(* characters of a source text.                                             *)
(***************************************************************************)
EXTENDS Integers, Sequences, FiniteSets, TLC

VARIABLES
    overflow_checks,  \* build profile: TRUE when i32 arithmetic is overflow-checked (debug)
    pc,               \* "ready" before the host's call, "done" once it returned,
                      \* "lexing" while the host holds a Lexer
    call,             \* the function that was applied and the inputs it was given
    ret               \* what it returned, and the maps it left behind; for a Lexer,
                      \* the Lexer and the items its calls of next gave so far

vars == <<overflow_checks, pc, call, ret>>

----------------------------------------------------------------------------
(* Values: ast.rs VarVal, each typed variant with an Option payload.        *)

I32_MAX == 2147483647
I32_MIN == (-2147483647) - 1

I32(v) == [k |-> "I32", some |-> TRUE, i32 |-> v]
BOOL(v) == [k |-> "BOOL", some |-> TRUE, bool |-> v]
STR(v) == [k |-> "STRING", some |-> TRUE, string |-> v]
UNIT == [k |-> "UNIT"]
\* I32(None), BOOL(None), STRING(None) of ast.rs: the declared-but-unbound placeholder
Absent(kind) == [k |-> kind, some |-> FALSE]

IsI32(x) == x.k = "I32" /\ x.some
IsBOOL(x) == x.k = "BOOL" /\ x.some
IsSTRING(x) == x.k = "STRING" /\ x.some

Variable(ident, value) == [ident |-> ident, value |-> value]

----------------------------------------------------------------------------
(* Results: Result<VarVal, RuntimeError>, plus the abort of the thread by a *)
(* panic (Rust's arithmetic panics), which returns nothing to the caller.   *)

Ok(v) == [tag |-> "Ok", value |-> v]
Err(e) == [tag |-> "Err", error |-> e]
Panic(msg) == [tag |-> "Panic", msg |-> msg]

error(error_type, position) == [error_type |-> error_type, position |-> position]

UndefinedVariable(name) == [kind |-> "UndefinedVariable", name |-> name]
UndefinedFunction(name) == [kind |-> "UndefinedFunction", name |-> name]
WrongNumberOfArguments(name) == [kind |-> "WrongNumberOfArguments", name |-> name]
InvalidOpcode == [kind |-> "InvalidOpcode"]
InvalidOperands == [kind |-> "InvalidOperands"]
BooleanExpected == [kind |-> "BooleanExpected"]
NoMain == [kind |-> "NoMain"]

Opcodes == {"Mul", "Div", "Mod", "Add", "Sub", "Eq", "Ne", "Lt", "Le", "Gt", "Ge", "And", "Or"}

----------------------------------------------------------------------------
(* i32 arithmetic as Rust computes it, without leaving the 32-bit range in  *)
(* any intermediate value.                                                  *)

add_overflows(l, r) == (r > 0 /\ l > I32_MAX - r) \/ (r < 0 /\ l < I32_MIN - r)

wrapping_add(l, r) ==
    IF r > 0 /\ l > I32_MAX - r THEN (l - I32_MAX - 1) + (r - I32_MAX - 1)
    ELSE IF r < 0 /\ l < I32_MIN - r THEN (l - I32_MIN) + (r - I32_MIN)
    ELSE l + r

sub_overflows(l, r) == (r < 0 /\ l > I32_MAX + r) \/ (r > 0 /\ l < I32_MIN + r)

wrapping_sub(l, r) ==
    IF r < 0 /\ l > I32_MAX + r THEN (l - I32_MAX - 1) - (r + I32_MAX + 1)
    ELSE IF r > 0 /\ l < I32_MIN + r THEN (l - I32_MIN) - (r - I32_MAX - 1)
    ELSE l - r

\* the k-th byte (k = 0 the lowest) of the two's complement form of x
byte(x, k) ==
    CASE k = 0 -> x % 256
      [] k = 1 -> (x \div 256) % 256
      [] k = 2 -> (x \div 65536) % 256
      [] k = 3 -> (x \div 16777216) % 256

\* l * r modulo 2^32: the low four bytes of the schoolbook product
wrapping_mul(l, r) ==
    LET s0 == byte(l, 0) * byte(r, 0)
        s1 == byte(l, 0) * byte(r, 1) + byte(l, 1) * byte(r, 0) + (s0 \div 256)
        s2 == byte(l, 0) * byte(r, 2) + byte(l, 1) * byte(r, 1) + byte(l, 2) * byte(r, 0)
                + (s1 \div 256)
        s3 == byte(l, 0) * byte(r, 3) + byte(l, 1) * byte(r, 2) + byte(l, 2) * byte(r, 1)
                + byte(l, 3) * byte(r, 0) + (s2 \div 256)
        top == s3 % 256
    IN (s0 % 256) + 256 * (s1 % 256) + 65536 * (s2 % 256)
           + 16777216 * (IF top >= 128 THEN top - 256 ELSE top)

\* the quotient truncated toward zero; defined for r # 0 and (l, r) # (MIN, -1)
trunc_div(l, r) ==
    LET pos(a, b) == LET q == a \div b IN IF a < 0 /\ a % b # 0 THEN q + 1 ELSE q
    IN IF r > 0 THEN pos(l, r)
       ELSE IF r = I32_MIN THEN (IF l = I32_MIN THEN 1 ELSE 0)
       ELSE 0 - pos(l, 0 - r)

trunc_rem(l, r) == l - r * trunc_div(l, r)

mul_overflows(l, r) ==
    /\ l # 0
    /\ r # 0
    /\ \/ (l = -1 /\ r = I32_MIN)
       \/ (r = -1 /\ l = I32_MIN)
       \/ trunc_div(wrapping_mul(l, r), l) # r

\* l + r, l - r, l * r: a panic in an overflow-checked build, wrapped otherwise
int_add(l, r) ==
    IF overflow_checks /\ add_overflows(l, r) THEN Panic("attempt to add with overflow")
    ELSE Ok(I32(wrapping_add(l, r)))

int_sub(l, r) ==
    IF overflow_checks /\ sub_overflows(l, r) THEN Panic("attempt to subtract with overflow")
    ELSE Ok(I32(wrapping_sub(l, r)))

int_mul(l, r) ==
    IF overflow_checks /\ mul_overflows(l, r) THEN Panic("attempt to multiply with overflow")
    ELSE Ok(I32(wrapping_mul(l, r)))

\* l / r and l % r: a zero divisor and MIN / -1 panic in every build
int_div(l, r) ==
    IF r = 0 THEN Panic("attempt to divide by zero")
    ELSE IF l = I32_MIN /\ r = -1 THEN Panic("attempt to divide with overflow")
    ELSE Ok(I32(trunc_div(l, r)))

int_mod(l, r) ==
    IF r = 0 THEN Panic("attempt to calculate the remainder with a divisor of zero")
    ELSE IF l = I32_MIN /\ r = -1 THEN Panic("attempt to calculate the remainder with overflow")
    ELSE Ok(I32(trunc_rem(l, r)))

----------------------------------------------------------------------------
(* eval, ExprType::Op: the operator applied to the two operand values.      *)

binop(l, opc, r, position) ==
    IF IsI32(l) /\ IsI32(r) THEN
        CASE opc = "Add" -> int_add(l.i32, r.i32)
          [] opc = "Sub" -> int_sub(l.i32, r.i32)
          [] opc = "Mul" -> int_mul(l.i32, r.i32)
          [] opc = "Div" -> int_div(l.i32, r.i32)
          [] opc = "Mod" -> int_mod(l.i32, r.i32)
          [] opc = "Eq" -> Ok(BOOL(l.i32 = r.i32))
          [] opc = "Ne" -> Ok(BOOL(l.i32 # r.i32))
          [] opc = "Lt" -> Ok(BOOL(l.i32 < r.i32))
          [] opc = "Le" -> Ok(BOOL(l.i32 <= r.i32))
          [] opc = "Gt" -> Ok(BOOL(l.i32 > r.i32))
          [] opc = "Ge" -> Ok(BOOL(l.i32 >= r.i32))
          [] OTHER -> Err(error(InvalidOpcode, position))
    ELSE IF IsBOOL(l) /\ IsBOOL(r) THEN
        CASE opc = "Eq" -> Ok(BOOL(l.bool = r.bool))
          [] opc = "Ne" -> Ok(BOOL(l.bool # r.bool))
          [] opc = "And" -> Ok(BOOL(l.bool /\ r.bool))
          [] opc = "Or" -> Ok(BOOL(l.bool \/ r.bool))
          [] OTHER -> Err(error(InvalidOpcode, position))
    ELSE IF IsSTRING(l) /\ IsSTRING(r) THEN
        CASE opc = "Eq" -> Ok(BOOL(l.string = r.string))
          [] opc = "Ne" -> Ok(BOOL(l.string # r.string))
          [] OTHER -> Err(error(InvalidOpcode, position))
    ELSE Err(error(InvalidOperands, position))

----------------------------------------------------------------------------
(* The native table. A native is a host closure (FnMut): calling it records *)
(* the argument list it received, in call order, and returns a value.       *)

\* buildins.get_mut(name) then f(arglist)
call_native(buildins_, name, args) ==
    [value |-> buildins_.fns[name].returns,
     buildins |-> [buildins_ EXCEPT !.calls = Append(@, [name |-> name, args |-> args])]]

----------------------------------------------------------------------------
(* eval, ExprType::Var: globals first, then locals.                         *)

\* the lookup with the two maps consulted in the other order
lookup_locals_first(id, globals_, locals, position) ==
    IF id \in DOMAIN locals THEN Ok(locals[id].value)
    ELSE IF id \in DOMAIN globals_ THEN Ok(globals_[id].value)
    ELSE Err(error(UndefinedVariable(id), position))

lookup(id, globals_, locals, position) ==
    IF id \in DOMAIN globals_ THEN Ok(globals_[id].value)
    ELSE IF id \in DOMAIN locals THEN Ok(locals[id].value)
    ELSE Err(error(UndefinedVariable(id), position))

\* HashMap::new
EmptyMap == [k \in {} |-> UNIT]

\* HashMap::insert
insert(map, key, value) == [k \in DOMAIN map \cup {key} |-> IF k = key THEN value ELSE map[k]]

----------------------------------------------------------------------------
(* The evaluator. Every function returns the result together with the maps  *)
(* it was given by mutable reference, as it left them.                      *)

Out(result, globals_, locals, buildins_) ==
    [result |-> result, globals |-> globals_, locals |-> locals, buildins |-> buildins_]

\* the ? operator: anything but Ok ends the caller with what was returned,
\* an Ok lets it go on with `rest`
try(r, rest(_)) == IF r.result.tag # "Ok" THEN r ELSE rest(r)

RECURSIVE eval(_, _, _, _, _)
RECURSIVE eval_args(_, _, _, _, _, _)
RECURSIVE eval_if(_, _, _, _, _, _)
RECURSIVE eval_stmts(_, _, _, _, _, _)
RECURSIVE eval_block(_, _, _, _, _)
RECURSIVE eval_function(_, _, _, _, _)

\* expr_list.iter().map(eval).collect::<Result<_, _>>(): left to right, stopping
\* at the first error; `done` holds the values of the arguments already evaluated
eval_args(expr_list, done, globals_, program_, locals, buildins_) ==
    IF Len(done) = Len(expr_list) THEN Out(Ok(done), globals_, locals, buildins_)
    ELSE try(eval(expr_list[Len(done) + 1], globals_, program_, locals, buildins_),
             LAMBDA a : eval_args(expr_list, Append(done, a.result.value),
                                  a.globals, program_, a.locals, a.buildins))

\* a native's return value, taken as the value of the call
native_returned(n, globals_, locals) == Out(Ok(n.value), globals_, locals, n.buildins)

\* the return of a function that worked on its caller's map
function_returned_shared(f, locals) ==
    Out(f.result, f.globals,
        [id \in DOMAIN locals \cup DOMAIN f.locals |->
            IF id \in DOMAIN f.locals THEN f.locals[id] ELSE locals[id]],
        f.buildins)

\* a user function's result, back in the caller, whose locals it never saw
function_returned(f, locals) == Out(f.result, f.globals, locals, f.buildins)

\* the dispatch with the program's functions consulted before the natives
dispatch_functions_first(name, args, position, globals_, program_, locals, buildins_) ==
    IF name \in DOMAIN program_.functions THEN
        function_returned(
            eval_function(program_.functions[name], args, globals_, program_, buildins_),
            locals)
    ELSE IF name \in DOMAIN buildins_.fns THEN
        native_returned(call_native(buildins_, name, args), globals_, locals)
    ELSE Out(Err(error(UndefinedFunction(name), position)), globals_, locals, buildins_)

\* the dispatch of a call once its arguments are evaluated
dispatch(name, args, position, globals_, program_, locals, buildins_) ==
    IF name \in DOMAIN buildins_.fns THEN
        native_returned(call_native(buildins_, name, args), globals_, locals)
    ELSE IF name \in DOMAIN program_.functions THEN
        function_returned(
            eval_function(program_.functions[name], args, globals_, program_, buildins_),
            locals)
    ELSE Out(Err(error(UndefinedFunction(name), position)), globals_, locals, buildins_)

\* the operator applied once both operands have their values
operate(l, opc, r, position) ==
    Out(binop(l.result.value, opc, r.result.value, position), r.globals, r.locals, r.buildins)

\* ExprType::Op with a right operand that is evaluated only when the left one
\* does not decide && or ||
eval_op_short_circuit(expr, globals_, program_, locals, buildins_) ==
    try(eval(expr.lhs, globals_, program_, locals, buildins_),
        LAMBDA l :
            IF IsBOOL(l.result.value)
                   /\ \/ (expr.opc = "And" /\ ~l.result.value.bool)
                      \/ (expr.opc = "Or" /\ l.result.value.bool)
            THEN l
            ELSE try(eval(expr.rhs, l.globals, program_, l.locals, l.buildins),
                     LAMBDA r : operate(l, expr.opc, r, expr.position)))

\* ExprType::Op: the left operand, then the right one, then the operator
eval_op(expr, globals_, program_, locals, buildins_) ==
    try(eval(expr.lhs, globals_, program_, locals, buildins_),
        LAMBDA l :
            try(eval(expr.rhs, l.globals, program_, l.locals, l.buildins),
                LAMBDA r : operate(l, expr.opc, r, expr.position)))

\* eval with the name of a call looked up before its arguments are evaluated
eval_lookup_first(expr, globals_, program_, locals, buildins_) ==
    CASE expr.type = "Function" ->
            IF expr.name \notin DOMAIN buildins_.fns \cup DOMAIN program_.functions
            THEN Out(Err(error(UndefinedFunction(expr.name), expr.position)),
                     globals_, locals, buildins_)
            ELSE try(eval_args(expr.expr_list, <<>>, globals_, program_, locals, buildins_),
                     LAMBDA a : dispatch(expr.name, a.result.value, expr.position,
                                         a.globals, program_, a.locals, a.buildins))
      [] expr.type = "Value" -> Out(Ok(expr.value), globals_, locals, buildins_)
      [] expr.type = "Op" -> eval_op(expr, globals_, program_, locals, buildins_)
      [] expr.type = "Var" ->
            Out(lookup(expr.id, globals_, locals, expr.position), globals_, locals, buildins_)
      [] expr.type = "If" ->
            eval_if(expr.if_expr, globals_, program_, locals, buildins_, expr.position)

eval(expr, globals_, program_, locals, buildins_) ==
    CASE expr.type = "Function" ->
            try(eval_args(expr.expr_list, <<>>, globals_, program_, locals, buildins_),
                LAMBDA a : dispatch(expr.name, a.result.value, expr.position,
                                    a.globals, program_, a.locals, a.buildins))
      [] expr.type = "Value" -> Out(Ok(expr.value), globals_, locals, buildins_)
      [] expr.type = "Op" -> eval_op(expr, globals_, program_, locals, buildins_)
      [] expr.type = "Var" ->
            Out(lookup(expr.id, globals_, locals, expr.position), globals_, locals, buildins_)
      [] expr.type = "If" ->
            eval_if(expr.if_expr, globals_, program_, locals, buildins_, expr.position)

\* the match with the blocks of the two outcomes exchanged
branch_exchanged(if_expr, predicate, program_, position) ==
    IF IsBOOL(predicate.result.value) THEN
        IF ~predicate.result.value.bool THEN
            eval_block(if_expr.if_block, predicate.globals, program_,
                       predicate.locals, predicate.buildins)
        ELSE CASE if_expr.else_part.type = "Else" ->
                     eval_block(if_expr.else_part.block, predicate.globals, program_,
                                predicate.locals, predicate.buildins)
               [] if_expr.else_part.type = "ElseIf" ->
                     eval_if(if_expr.else_part.next_if, predicate.globals, program_,
                             predicate.locals, predicate.buildins, position)
               [] if_expr.else_part.type = "None" ->
                     Out(Ok(UNIT), predicate.globals, predicate.locals, predicate.buildins)
    ELSE Out(Err(error(BooleanExpected, position)),
             predicate.globals, predicate.locals, predicate.buildins)

\* the match with each block run in a scope of its own: what the selected
\* block assigned is dropped when the block ends
branch_scoped(if_expr, predicate, program_, position) ==
    IF IsBOOL(predicate.result.value) THEN
        IF predicate.result.value.bool THEN
            [eval_block(if_expr.if_block, predicate.globals, program_,
                        predicate.locals, predicate.buildins)
                EXCEPT !.locals = predicate.locals]
        ELSE CASE if_expr.else_part.type = "Else" ->
                     [eval_block(if_expr.else_part.block, predicate.globals, program_,
                                 predicate.locals, predicate.buildins)
                         EXCEPT !.locals = predicate.locals]
               [] if_expr.else_part.type = "ElseIf" ->
                     eval_if(if_expr.else_part.next_if, predicate.globals, program_,
                             predicate.locals, predicate.buildins, position)
               [] if_expr.else_part.type = "None" ->
                     Out(Ok(UNIT), predicate.globals, predicate.locals, predicate.buildins)
    ELSE Out(Err(error(BooleanExpected, position)),
             predicate.globals, predicate.locals, predicate.buildins)

\* the match on the predicate's value
branch(if_expr, predicate, program_, position) ==
    IF IsBOOL(predicate.result.value) THEN
        IF predicate.result.value.bool THEN
            eval_block(if_expr.if_block, predicate.globals, program_,
                       predicate.locals, predicate.buildins)
        ELSE CASE if_expr.else_part.type = "Else" ->
                     eval_block(if_expr.else_part.block, predicate.globals, program_,
                                predicate.locals, predicate.buildins)
               [] if_expr.else_part.type = "ElseIf" ->
                     eval_if(if_expr.else_part.next_if, predicate.globals, program_,
                             predicate.locals, predicate.buildins, position)
               [] if_expr.else_part.type = "None" ->
                     Out(Ok(UNIT), predicate.globals, predicate.locals, predicate.buildins)
    ELSE Out(Err(error(BooleanExpected, position)),
             predicate.globals, predicate.locals, predicate.buildins)

eval_if(if_expr, globals_, program_, locals, buildins_, position) ==
    try(eval(if_expr.condition, globals_, program_, locals, buildins_),
        LAMBDA predicate : branch(if_expr, predicate, program_, position))

\* the assignment that writes to the map that binds the name
assign_where_bound(id, res) ==
    IF id \in DOMAIN res.globals THEN
        Out(res.result, insert(res.globals, id, Variable(id, res.result.value)),
            res.locals, res.buildins)
    ELSE Out(res.result, res.globals,
             insert(res.locals, id, Variable(id, res.result.value)), res.buildins)

\* the assignment that leaves a name that is bound as it is
assign_once(id, res) ==
    IF id \in DOMAIN res.locals THEN res
    ELSE Out(res.result, res.globals,
             insert(res.locals, id, Variable(id, res.result.value)), res.buildins)

\* Stmt::Asgn, once its expression gave res: locals.insert(id, Variable {ident, value})
assign(id, res) ==
    Out(res.result, res.globals,
        insert(res.locals, id, Variable(id, res.result.value)), res.buildins)

\* the statement whose expression's error is dropped when its value is not used
eval_stmt_lenient(stmt, globals_, program_, locals, buildins_) ==
    IF stmt.type = "Asgn" THEN
        try(eval(stmt.expr, globals_, program_, locals, buildins_),
            LAMBDA res : assign(stmt.id, res))
    ELSE [eval(stmt.expr, globals_, program_, locals, buildins_) EXCEPT
              !.result = IF @.tag = "Err" THEN Ok(UNIT) ELSE @]

\* one statement of a block: Stmt::Expr or Stmt::Asgn
eval_stmt(stmt, globals_, program_, locals, buildins_) ==
    try(eval(stmt.expr, globals_, program_, locals, buildins_),
        LAMBDA res : IF stmt.type = "Asgn" THEN assign(stmt.id, res) ELSE res)

\* for stmt in &block.statements, from the i-th statement on
eval_stmts(statements, i, globals_, program_, locals, buildins_) ==
    IF i > Len(statements) THEN Out(Ok(UNIT), globals_, locals, buildins_)
    ELSE try(eval_stmt(statements[i], globals_, program_, locals, buildins_),
             LAMBDA s : eval_stmts(statements, i + 1, s.globals, program_, s.locals, s.buildins))

eval_block(block, globals_, program_, locals, buildins_) ==
    try(eval_stmts(block.statements, 1, globals_, program_, locals, buildins_),
        LAMBDA s : eval(block.expr, s.globals, program_, s.locals, s.buildins))

\* the new locals map with the arguments bound from the last parameter back
bind_arguments_reversed(arguments, args) ==
    [id \in {arguments[i].ident : i \in 1..Len(arguments)} |->
        Variable(id, args[Len(args) + 1 -
                          (CHOOSE i \in 1..Len(arguments) : arguments[i].ident = id)])]

\* the new locals map: each parameter bound to the argument at its position
bind_arguments(arguments, args) ==
    LET idents == {arguments[i].ident : i \in 1..Len(arguments)}
        \* a later parameter of the same name overwrites an earlier one
        last(id) == CHOOSE i \in 1..Len(arguments) :
                        /\ arguments[i].ident = id
                        /\ \A j \in (i + 1)..Len(arguments) : arguments[j].ident # id
    IN [id \in idents |-> Variable(id, args[last(id)])]

\* the returned locals are those of the invocation, dropped when it returns
eval_function(function, args, globals_, program_, buildins_) ==
    IF Len(args) # Len(function.arguments) THEN
        Out(Err(error(WrongNumberOfArguments(function.name), function.position)),
            globals_, EmptyMap, buildins_)
    ELSE eval_block(function.block, globals_, program_,
                    bind_arguments(function.arguments, args), buildins_)

\* main.rs execute: the program indexed by "main", which panics without it
execute_indexed(program_, globals_, buildins_) ==
    IF "main" \in DOMAIN program_.functions THEN
        eval_function(program_.functions["main"], <<>>, globals_, program_, buildins_)
    ELSE Out(Panic("no entry found for key"), globals_, EmptyMap, buildins_)

execute(program_, globals_, buildins_) ==
    IF "main" \in DOMAIN program_.functions THEN
        eval_function(program_.functions["main"], <<>>, globals_, program_, buildins_)
    ELSE Out(Err(error(NoMain, 0)), globals_, EmptyMap, buildins_)

----------------------------------------------------------------------------
(* The syntax tree, as lib.rs reads it.                                     *)

Value(v, position) == [type |-> "Value", position |-> position, value |-> v]
Var(id, position) == [type |-> "Var", position |-> position, id |-> id]
Op(lhs, opc, rhs, position) ==
    [type |-> "Op", position |-> position, lhs |-> lhs, opc |-> opc, rhs |-> rhs]
Call(name, expr_list, position) ==
    [type |-> "Function", position |-> position, name |-> name, expr_list |-> expr_list]
IfExpr(if_expr, position) == [type |-> "If", position |-> position, if_expr |-> if_expr]

If(condition, if_block, else_part) ==
    [condition |-> condition, if_block |-> if_block, else_part |-> else_part]
Else(block) == [type |-> "Else", block |-> block]
ElseIf(next_if) == [type |-> "ElseIf", next_if |-> next_if]
ElseNone == [type |-> "None"]

Block(statements, expr) == [statements |-> statements, expr |-> expr]
StmtExpr(expr) == [type |-> "Expr", expr |-> expr]
Asgn(id, expr) == [type |-> "Asgn", id |-> id, expr |-> expr]

Function(name, arguments, block, position) ==
    [name |-> name, arguments |-> arguments, block |-> block, position |-> position]
Program(functions) == [functions |-> functions]

\* Program.functions: the map the parser fills, keyed by the functions' names
FnTable(fs) == [n \in {f.name : f \in fs} |-> CHOOSE f \in fs : f.name = n]

----------------------------------------------------------------------------
(* Bounds of the inputs.                                                    *)

MaxArgs == 2     \* longest argument list of a call
MaxStmts == 2    \* most statements of a block
MaxRec == 2      \* largest argument of the recursive function r

----------------------------------------------------------------------------
(* The functions of the programs that are run.                              *)

print_call(e, position) == Call("print", <<e>>, position)
Param(ident, kind) == Variable(ident, Absent(kind))

\* fn main() { x = 5; x = x + 1; x }
main_counter ==
    Function("main", <<>>,
        Block(<<Asgn("x", Value(I32(5), 31)),
                Asgn("x", Op(Var("x", 32), "Add", Value(I32(1), 33), 34))>>,
              Var("x", 35)), 30)

\* fn main() { foo() }
main_undefined == Function("main", <<>>, Block(<<>>, Call("foo", <<>>, 31)), 30)

\* fn main(a: i32) { a }
main_param == Function("main", <<Param("a", "I32")>>, Block(<<>>, Var("a", 31)), 30)

\* fn main() { y = 1; t = f(7); h() }
main_caller ==
    Function("main", <<>>,
        Block(<<Asgn("y", Value(I32(1), 31)),
                Asgn("t", Call("f", <<Value(I32(7), 32)>>, 33))>>,
              Call("h", <<>>, 34)), 30)

\* fn main() { g(1) }
main_arity == Function("main", <<>>, Block(<<>>, Call("g", <<Value(I32(1), 31)>>, 32)), 30)

\* fn main() { print(r(2)); say("L", true) && say("R", false) }
main_logic ==
    Function("main", <<>>,
        Block(<<StmtExpr(print_call(Call("r", <<Value(I32(MaxRec), 31)>>, 32), 33))>>,
              Op(Call("say", <<Value(STR("L"), 34), Value(BOOL(TRUE), 35)>>, 36), "And",
                 Call("say", <<Value(STR("R"), 37), Value(BOOL(FALSE), 38)>>, 39), 40)), 30)

\* fn f(a: i32) { x = a; print(x); x }
fn_f ==
    Function("f", <<Param("a", "I32")>>,
        Block(<<Asgn("x", Var("a", 51)), StmtExpr(print_call(Var("x", 52), 53))>>,
              Var("x", 54)), 50)

\* fn g(a: i32, b: i32) { a + b }
fn_g ==
    Function("g", <<Param("a", "I32"), Param("b", "I32")>>,
        Block(<<>>, Op(Var("a", 61), "Add", Var("b", 62), 63)), 60)

\* fn h() { y }
fn_h == Function("h", <<>>, Block(<<>>, Var("y", 71)), 70)

\* fn r(n: i32) { if n <= 0 { 0 } else { m = n; r(n - 1) + m } }
fn_r ==
    Function("r", <<Param("n", "I32")>>,
        Block(<<>>,
            IfExpr(If(Op(Var("n", 81), "Le", Value(I32(0), 82), 83),
                      Block(<<>>, Value(I32(0), 84)),
                      Else(Block(<<Asgn("m", Var("n", 85))>>,
                                 Op(Call("r", <<Op(Var("n", 86), "Sub", Value(I32(1), 87), 88)>>, 89),
                                    "Add", Var("m", 90), 91)))), 92)), 80)

\* fn say(t: String, b: bool) { print(t); b }
fn_say ==
    Function("say", <<Param("t", "STRING"), Param("b", "BOOL")>>,
        Block(<<StmtExpr(print_call(Var("t", 101), 102))>>, Var("b", 103)), 100)

\* fn id(x: i32) { x }
fn_id == Function("id", <<Param("x", "I32")>>, Block(<<>>, Var("x", 111)), 110)

\* fn fail(a: i32) { print("in"); q; print("after"); a }
fn_fail ==
    Function("fail", <<Param("a", "I32")>>,
        Block(<<StmtExpr(print_call(Value(STR("in"), 131), 132)),
                StmtExpr(Var("q", 133)),
                StmtExpr(print_call(Value(STR("after"), 134), 135))>>,
              Var("a", 136)), 130)

\* fn main() { print("start"); t = g(fail(1), print("arg2")); print("end"); foo() }
main_failfast ==
    Function("main", <<>>,
        Block(<<StmtExpr(print_call(Value(STR("start"), 121), 122)),
                Asgn("t", Call("g", <<Call("fail", <<Value(I32(1), 123)>>, 124),
                                      print_call(Value(STR("arg2"), 125), 126)>>, 127)),
                StmtExpr(print_call(Value(STR("end"), 128), 129))>>,
              Call("foo", <<>>, 119)), 120)

\* { v = value; 0 }
Binding(v, position) == Block(<<Asgn("v", Value(v, position + 1))>>, Value(I32(0), position))

\* fn w(n: i32) { if n <= 0 { v = 1; 0 } else if n <= 1 { v = 2; 0 } else { v = 3; 0 }; v }
fn_w ==
    Function("w", <<Param("n", "I32")>>,
        Block(<<StmtExpr(IfExpr(
                    If(Op(Var("n", 141), "Le", Value(I32(0), 142), 143),
                       Binding(I32(1), 144),
                       ElseIf(If(Op(Var("n", 146), "Le", Value(I32(1), 147), 148),
                                 Binding(I32(2), 149),
                                 Else(Binding(I32(3), 151))))), 153))>>,
              Var("v", 154)), 140)

\* fn main() { t = w(1); v }
main_scope ==
    Function("main", <<>>,
        Block(<<Asgn("t", Call("w", <<Value(I32(1), 161)>>, 162))>>, Var("v", 163)), 160)

Library == {fn_f, fn_g, fn_h, fn_r, fn_say, fn_id, fn_fail, fn_w}
Mains ==
    {main_counter, main_undefined, main_param, main_caller, main_arity, main_logic,
     main_failfast, main_scope}

LibraryProgram == Program(FnTable(Library))
Programs ==
    {Program(EmptyMap), LibraryProgram} \cup {Program(FnTable(Library \cup {m})) : m \in Mains}

----------------------------------------------------------------------------
(* The environments the host supplies.                                      *)

MapOf(bindings) == [id \in {b[1] : b \in bindings} |->
                       Variable(id, (CHOOSE b \in bindings : b[1] = id)[2])]

GlobalsSet ==
    {EmptyMap, MapOf({<<"x", I32(9)>>}), MapOf({<<"x", I32(9)>>, <<"y", BOOL(TRUE)>>})}

LocalsSet ==
    {EmptyMap, MapOf({<<"x", I32(2)>>}), MapOf({<<"x", BOOL(FALSE)>>, <<"y", STR("a")>>})}

Native(returns) == [returns |-> returns]
Buildins(fns) == [fns |-> fns, calls |-> <<>>]

\* bin.rs buildins(): print returns the unit value
print_only == [n \in {"print"} |-> Native(UNIT)]
\* a host that also registers a native named f, the name of a user function
print_and_f == [n \in {"print", "f"} |-> IF n = "f" THEN Native(I32(7)) ELSE Native(UNIT)]

BuildinsSet == {Buildins(EmptyMap), Buildins(print_only), Buildins(print_and_f)}

----------------------------------------------------------------------------
(* The expressions, if-expressions and blocks that are evaluated.           *)

IntVals == {I32_MIN, -1, 0, 1, 2, 7, I32_MAX}
Vals ==
    {I32(i) : i \in IntVals} \cup {BOOL(TRUE), BOOL(FALSE), STR("1"), STR("a"), UNIT}
        \cup {Absent(kind) : kind \in {"I32", "BOOL", "STRING"}}

Idents == {"x", "y", "z"}
VarExprs == {Var(id, 3) : id \in Idents}

\* the i-th argument of a call: a literal, a variable or a call of print
ArgKinds == {"one", "y", "print"}
ArgExpr(kind, i) ==
    CASE kind = "one" -> Value(I32(i), 20 + i)
      [] kind = "y" -> Var("y", 20 + i)
      [] kind = "print" -> print_call(Value(I32(i), 10 + i), 20 + i)
ArgExprLists ==
    UNION {{[i \in 1..n |-> ArgExpr(ks[i], i)] : ks \in [1..n -> ArgKinds]} : n \in 0..MaxArgs}

CallNames == {"print", "f", "g", "h", "id", "foo"}
CallExprs == {Call(name, expr_list, 4) : name \in CallNames, expr_list \in ArgExprLists}

\* an operand that leaves a trace: say(side, b) calls print(side) and gives b
Say(side, b, position) ==
    Call("say", <<Value(STR(side), position + 1), Value(BOOL(b), position + 2)>>, position)
Operands(side, position) ==
    {Say(side, TRUE, position), Say(side, FALSE, position),
     print_call(Value(STR(side), position + 1), position),
     Value(I32(1), position), Var("z", position)}
OpExprs ==
    {Op(lhs, opc, rhs, 5) : lhs \in Operands("L", 40), opc \in Opcodes, rhs \in Operands("R", 50)}

\* { print(tag); value }
Marked(tag, v, position) ==
    Block(<<StmtExpr(print_call(Value(STR(tag), position + 1), position + 2))>>,
          Value(v, position))
\* { x = value; x }
Assigning(v, position) ==
    Block(<<Asgn("x", Value(v, position + 1))>>, Var("x", position))

Conditions ==
    {Value(v, 60) : v \in {BOOL(TRUE), BOOL(FALSE), I32(1), Absent("BOOL"), UNIT}}
        \cup {Var("x", 60), Var("z", 60), Say("C", TRUE, 60), Say("C", FALSE, 60)}
InnerIfs ==
    {If(c, Marked("then2", I32(2), 70), e) :
        c \in {Value(BOOL(TRUE), 61), Value(BOOL(FALSE), 61), Value(I32(1), 61)},
        e \in {ElseNone, Else(Marked("else2", I32(3), 73))}}
ElseParts ==
    {ElseNone, Else(Marked("else", I32(2), 76)), Else(Assigning(I32(4), 76))}
        \cup {ElseIf(i) : i \in InnerIfs}
\* { value }
Plain(v, position) == Block(<<>>, Value(v, position))
\* if true { 1 } else { 2 }
if_true_1_else_2 == If(Value(BOOL(TRUE), 60), Plain(I32(1), 64), Else(Plain(I32(2), 76)))
\* if false { 1 } else if true { 2 } else { 3 }
if_false_1_else_if_true_2_else_3 ==
    If(Value(BOOL(FALSE), 60), Plain(I32(1), 64),
       ElseIf(If(Value(BOOL(TRUE), 61), Plain(I32(2), 70), Else(Plain(I32(3), 73)))))
Ifs ==
    {If(c, b, e) : c \in Conditions,
                   b \in {Marked("then", I32(1), 64), Assigning(I32(3), 64)},
                   e \in ElseParts}
        \cup {if_true_1_else_2, if_false_1_else_if_true_2_else_3}

Stmts ==
    {Asgn("x", Value(I32(5), 11)),
     Asgn("x", Op(Var("x", 12), "Add", Value(I32(1), 13), 14)),
     Asgn("y", Var("x", 15)),
     StmtExpr(print_call(Var("x", 16), 17)),
     StmtExpr(Var("z", 18))}
StmtLists == UNION {[1..n -> Stmts] : n \in 0..MaxStmts}
\* if c { v = 3; 0 } with no else part, an else block or an else-if
ScopeIfs ==
    {If(Value(BOOL(c), 60), Binding(I32(3), 64), e) :
        c \in BOOLEAN,
        e \in {ElseNone, Else(Binding(I32(4), 76)),
               ElseIf(If(Value(BOOL(TRUE), 61), Binding(I32(2), 70), ElseNone))}}
\* { [v = 5;] if ...; [y = v;] v }
ScopeBlocks ==
    {Block(pre \o <<StmtExpr(IfExpr(i, 7))>> \o post, Var("v", 19)) :
        pre \in {<<>>, <<Asgn("v", Value(I32(5), 11))>>},
        i \in ScopeIfs,
        post \in {<<>>, <<Asgn("y", Var("v", 15))>>}}

Blocks ==
    {Block(ss, e) : ss \in StmtLists, e \in {Var("x", 19), Var("y", 19), Value(UNIT, 19)}}
        \cup ScopeBlocks

\* the argument lists eval_function is given
ArgLists == UNION {[1..n -> {I32(1), BOOL(TRUE)}] : n \in 0..MaxArgs}
                \cup {<<I32(n)>> : n \in 0..MaxRec}

----------------------------------------------------------------------------
(* The lexer, lexer.rs. A source text is the sequence of its characters, a  *)
(* character a string; offsets are byte offsets into the UTF-8 text.        *)

None == [some |-> FALSE]
Some(v) == [some |-> TRUE, value |-> v]

Letters ==
    {"a", "b", "c", "d", "e", "f", "g", "h", "i", "j", "k", "l", "m", "n", "o", "p", "q",
     "r", "s", "t", "u", "v", "w", "x", "y", "z", "A", "B", "C", "D", "E", "F", "G", "H",
     "I", "J", "K", "L", "M", "N", "O", "P", "Q", "R", "S", "T", "U", "V", "W", "X", "Y",
     "Z"}
Digits == <<"0", "1", "2", "3", "4", "5", "6", "7", "8", "9">>

is_symbol(ch) ==
    ch \in {"|", "&", "%", "!", ":", ",", ".", "=", "/", ">", "<", "-", "+", ";", "*"}
is_ident_start(ch) == ch \in Letters
is_ident_continue(ch) ==
    \/ ch \in {Digits[i] : i \in 1..10} \cup {"_"}
    \/ is_ident_start(ch)
is_dec_digit(ch) == ch \in {Digits[i] : i \in 1..10}
\* char::is_whitespace, for the characters of the texts that are lexed
is_whitespace(ch) == ch \in {" ", "\t", "\n", "\r", "U+00A0"}

\* char::len_utf8: the characters outside ASCII that occur take two bytes
len_utf8(ch) == IF ch \in {"U+00E9", "U+00A0"} THEN 2 ELSE 1

\* the byte offset of the i-th character (of the end of the text for i = Len + 1)
RECURSIVE byte_offset(_, _)
byte_offset(src, i) == IF i <= 1 THEN 0 ELSE byte_offset(src, i - 1) + len_utf8(src[i - 1])

\* str::len
src_len(src) == byte_offset(src, Len(src) + 1)

\* CharIndices::next of an iterator that gave k characters already
chars_next(src, k) ==
    IF k < Len(src) THEN Some(<<byte_offset(src, k + 1), src[k + 1]>>) ELSE None

\* Lexer::new
new(src) ==
    [src |-> src, lookahead |-> chars_next(src, 0), chars |-> IF Len(src) > 0 THEN 1 ELSE 0]

\* Lexer::bump
bump(lexer) ==
    [current |-> lexer.lookahead,
     lexer |-> [lexer EXCEPT !.lookahead = chars_next(lexer.src, lexer.chars),
                             !.chars = IF @ < Len(lexer.src) THEN @ + 1 ELSE @]]

\* Lexer::slice, &src[start..end]: the characters from offset start up to offset end
slice(src, start, end) ==
    LET at(offset) == CHOOSE i \in 1..(Len(src) + 1) : byte_offset(src, i) = offset
    IN SubSeq(src, at(start), at(end) - 1)

\* the closures handed to take_while and take_until
holds(predicate, ch) ==
    CASE predicate = "is_symbol" -> is_symbol(ch)
      [] predicate = "is_ident_continue" -> is_ident_continue(ch)
      [] predicate = "is_dec_digit" -> is_dec_digit(ch)
      [] predicate = "quote" -> ch = "\""
      [] predicate = "newline" -> ch = "\n"

\* Lexer::take_until, and take_while when keep_going: the lexer it leaves, the
\* end offset and the slice
RECURSIVE take_until(_, _, _, _)
take_until(lexer, start, predicate, keep_going) ==
    IF lexer.lookahead.some THEN
        IF holds(predicate, lexer.lookahead.value[2]) # keep_going THEN
            [lexer |-> lexer, end |-> lexer.lookahead.value[1],
             str |-> slice(lexer.src, start, lexer.lookahead.value[1])]
        ELSE take_until(bump(lexer).lexer, start, predicate, keep_going)
    ELSE [lexer |-> lexer, end |-> src_len(lexer.src),
          str |-> slice(lexer.src, start, src_len(lexer.src))]

take_while(lexer, start, predicate) == take_until(lexer, start, predicate, TRUE)

Token(kind) == [kind |-> kind]
Ident(str) == [kind |-> "Ident", str |-> str]
StringValue(str) == [kind |-> "StringValue", str |-> str]
DecLiteral(int) == [kind |-> "DecLiteral", int |-> int]

\* the (start, token, end) of an item
Triple(start, token, end) == [start |-> start, token |-> token, end |-> end]
\* what a call of next leaves: the lexer and the item
Yield(lexer, item) == [lexer |-> lexer, item |-> item]

\* Lexer::string
string(lexer, start) ==
    LET taken == take_until(lexer, start + 1, "quote", FALSE)
    IN Yield(bump(taken.lexer).lexer,
             Some(Ok(Triple(start, StringValue(taken.str), taken.end + 1))))

\* the keywords of Lexer::ident
Keywords ==
    {<<<<"i", "f">>, "If">>, <<<<"e", "l", "s", "e">>, "Else">>, <<<<"f", "n">>, "Function">>,
     <<<<"i", "3", "2">>, "I32">>, <<<<"b", "o", "o", "l">>, "Boolean">>,
     <<<<"S", "t", "r", "i", "n", "g">>, "String">>, <<<<"t", "r", "u", "e">>, "True">>,
     <<<<"f", "a", "l", "s", "e">>, "False">>}

\* Lexer::ident
ident(lexer, start) ==
    LET taken == take_while(lexer, start, "is_ident_continue")
        token == IF \E kw \in Keywords : kw[1] = taken.str
                 THEN Token((CHOOSE kw \in Keywords : kw[1] = taken.str)[2])
                 ELSE Ident(taken.str)
    IN Yield(taken.lexer, Some(Ok(Triple(start, token, taken.end))))

\* i32::from_str_radix(src, 10) of a run of digits: each step a checked
\* multiplication by ten and a checked addition of the digit
RECURSIVE from_str_radix(_, _)
from_str_radix(src, result) ==
    IF src = <<>> THEN Ok(result)
    ELSE LET digit == (CHOOSE i \in 1..10 : Digits[i] = Head(src)) - 1
         IN IF result > (I32_MAX - digit) \div 10 THEN Err("PosOverflow")
            ELSE from_str_radix(Tail(src), result * 10 + digit)

\* Lexer::dec_literal: unwrap panics on the Err of from_str_radix
dec_literal(lexer, start) ==
    LET taken == take_while(lexer, start, "is_dec_digit")
        int == from_str_radix(taken.str, 0)
    IN IF int.tag = "Err"
       THEN Yield(taken.lexer,
                  Panic("unwrap on an Err value: PosOverflow"))
       ELSE Yield(taken.lexer, Some(Ok(Triple(start, DecLiteral(int.value), taken.end))))

\* the symbols of Lexer::next
Symbols ==
    {<<<<"!">>, "Bang">>, <<<<"!", "=">>, "BangEqual">>, <<<<":">>, "Colon">>,
     <<<<",">>, "Comma">>, <<<<"=">>, "Equal">>, <<<<"=", "=">>, "EqualEqual">>,
     <<<<"/">>, "ForwardSlash">>, <<<<">">>, "Greater">>, <<<<">", "=">>, "GreaterEqual">>,
     <<<<"<">>, "Less">>, <<<<"<", "=">>, "LessEqual">>, <<<<"-">>, "Minus">>,
     <<<<"+">>, "Plus">>, <<<<";">>, "Semi">>, <<<<"*">>, "Star">>, <<<<"%">>, "Percent">>,
     <<<<"&", "&">>, "AmpAmp">>, <<<<"|", "|">>, "PipePipe">>}

\* the match of a run of symbol characters that may be a comment: the run
\* begins with //
is_comment(symbol) == Len(symbol) >= 2 /\ symbol[1] = "/" /\ symbol[2] = "/"

\* lexer.rs error(location, char)
lex_error(location, char) == Err([location |-> location, char |-> char])

RECURSIVE next(_)

\* Lexer::next, the arm of a symbol character
symbol_arm(lexer, start) ==
    LET taken == take_while(lexer, start, "is_symbol")
        symbol == taken.str
    IN IF \E sy \in Symbols : sy[1] = symbol THEN
           Yield(taken.lexer,
                 Some(Ok(Triple(start, Token((CHOOSE sy \in Symbols : sy[1] = symbol)[2]),
                                taken.end))))
       ELSE IF is_comment(symbol) THEN
           \* line comment: what is left of the line is taken, then `continue`
           next(take_until(taken.lexer, start, "newline", FALSE).lexer)
       ELSE Yield(taken.lexer, Some(lex_error(start, Some(symbol[1]))))

\* Lexer::next, once bump gave the character ch at offset start
next_arm(lexer, start, ch) ==
    IF is_symbol(ch) THEN symbol_arm(lexer, start)
    ELSE IF ch = "(" THEN Yield(lexer, Some(Ok(Triple(start, Token("LParen"), start + 1))))
    ELSE IF ch = ")" THEN Yield(lexer, Some(Ok(Triple(start, Token("RParen"), start + 1))))
    ELSE IF ch = "{" THEN Yield(lexer, Some(Ok(Triple(start, Token("LBrace"), start + 1))))
    ELSE IF ch = "}" THEN Yield(lexer, Some(Ok(Triple(start, Token("RBrace"), start + 1))))
    ELSE IF ch = "\"" THEN string(lexer, start)
    ELSE IF is_dec_digit(ch) THEN dec_literal(lexer, start)
    ELSE IF is_ident_start(ch) THEN ident(lexer, start)
    ELSE IF is_whitespace(ch) THEN next(lexer)
    ELSE Yield(lexer, Some(lex_error(start, Some(ch))))

\* Iterator::next of Lexer
next(lexer) ==
    IF bump(lexer).current.some
    THEN next_arm(bump(lexer).lexer, bump(lexer).current.value[1],
                  bump(lexer).current.value[2])
    ELSE Yield(bump(lexer).lexer, None)

----------------------------------------------------------------------------
(* The source texts that are lexed.                                         *)

MaxSrc == 3      \* longest source text over LexAlphabet

\* a symbol that starts comments, a symbol, a newline, a blank, a digit, a
\* quote, a letter, a delimiter, a character no token has, and e acute
LexAlphabet == {"/", ";", "\n", " ", "1", "\"", "a", "(", "#", "U+00E9"}

\* // comment\n123
src_comment_then_123 ==
    <<"/", "/", " ", "c", "o", "m", "m", "e", "n", "t", "\n", "1", "2", "3">>
\* // some text 123
src_comments_lexer ==
    <<"/", "/", " ", "s", "o", "m", "e", " ", "t", "e", "x", "t", " ", "1", "2", "3">>
\* "hello world"
src_string_lexer == <<"\"", "h", "e", "l", "l", "o", " ", "w", "o", "r", "l", "d", "\"">>
\* 123
src_dec_literal_lexer == <<"1", "2", "3">>
\* x = 1;// c\n2
src_comment_after_semi == <<"x", " ", "=", " ", "1", ";", "/", "/", " ", "c", "\n", "2">>
\* if a1 == "s" { fn } else true
src_keywords ==
    <<"i", "f", " ", "a", "1", " ", "=", "=", " ", "\"", "s", "\"", " ", "{", " ", "f", "n",
      " ", "}", " ", "e", "l", "s", "e", " ", "t", "r", "u", "e">>
\* 2147483647
src_i32_max == <<"2", "1", "4", "7", "4", "8", "3", "6", "4", "7">>
\* 2147483648
src_i32_max_plus_one == <<"2", "1", "4", "7", "4", "8", "3", "6", "4", "8">>
\* 0000000000042
src_leading_zeros == <<"0", "0", "0", "0", "0", "0", "0", "0", "0", "0", "0", "4", "2">>
\* 99999999999 + 1
src_eleven_nines ==
    <<"9", "9", "9", "9", "9", "9", "9", "9", "9", "9", "9", " ", "+", " ", "1">>

Sources ==
    UNION {[1..n -> LexAlphabet] : n \in 0..MaxSrc}
        \cup {src_comment_then_123, src_comments_lexer, src_string_lexer,
              src_dec_literal_lexer, src_comment_after_semi, src_keywords, src_i32_max,
              src_i32_max_plus_one, src_leading_zeros, src_eleven_nines}

----------------------------------------------------------------------------
(* The state machine: the host applies one function of the evaluator to     *)
(* inputs of its choice and keeps what the function returned, or makes a    *)
(* Lexer of a source text and calls its next until the sequence ends.       *)

Init ==
    /\ overflow_checks \in BOOLEAN
    /\ pc = "ready"
    /\ call = [fn |-> "none"]
    /\ ret = [result |-> "none"]

Returned(c, r) ==
    /\ pc' = "done"
    /\ call' = c
    /\ ret' = r
    /\ UNCHANGED overflow_checks

Binop ==
    /\ pc = "ready"
    /\ \E l \in Vals, opc \in Opcodes, r \in Vals :
        Returned([fn |-> "binop", l |-> l, opc |-> opc, r |-> r, position |-> 5],
                 [result |-> binop(l, opc, r, 5)])

Eval ==
    /\ pc = "ready"
    /\ \E expr \in VarExprs \cup CallExprs \cup OpExprs,
       g \in GlobalsSet, locals \in LocalsSet, b \in BuildinsSet :
        Returned([fn |-> "eval", expr |-> expr, globals |-> g, program |-> LibraryProgram,
                  locals |-> locals, buildins |-> b],
                 eval(expr, g, LibraryProgram, locals, b))

EvalIf ==
    /\ pc = "ready"
    /\ \E if_expr \in Ifs, g \in GlobalsSet, locals \in LocalsSet, b \in BuildinsSet :
        Returned([fn |-> "eval_if", if_expr |-> if_expr, globals |-> g,
                  program |-> LibraryProgram, locals |-> locals, buildins |-> b,
                  position |-> 6],
                 eval_if(if_expr, g, LibraryProgram, locals, b, 6))

EvalBlock ==
    /\ pc = "ready"
    /\ \E block \in Blocks, g \in GlobalsSet, locals \in LocalsSet, b \in BuildinsSet :
        Returned([fn |-> "eval_block", block |-> block, globals |-> g,
                  program |-> LibraryProgram, locals |-> locals, buildins |-> b],
                 eval_block(block, g, LibraryProgram, locals, b))

EvalFunction ==
    /\ pc = "ready"
    /\ \E p \in Programs, args \in ArgLists, g \in GlobalsSet, b \in BuildinsSet :
        \E name \in DOMAIN p.functions :
            Returned([fn |-> "eval_function", function |-> p.functions[name],
                      args |-> args, globals |-> g, program |-> p, buildins |-> b],
                     eval_function(p.functions[name], args, g, p, b))

Execute ==
    /\ pc = "ready"
    /\ \E p \in Programs, g \in GlobalsSet, b \in BuildinsSet :
        Returned([fn |-> "execute", program |-> p, globals |-> g, buildins |-> b],
                 execute(p, g, b))

\* Lexer::new(src)
LexerNew ==
    /\ pc = "ready"
    /\ \E src \in Sources :
        /\ pc' = "lexing"
        /\ call' = [fn |-> "Lexer", src |-> src]
        /\ ret' = [lexer |-> new(src), items |-> <<>>]
        /\ UNCHANGED overflow_checks

\* one more call of next, unless the sequence ended or the thread panicked
LexerNext ==
    /\ pc = "lexing"
    /\ IF ret.items = <<>> THEN TRUE
       ELSE /\ ret.items[Len(ret.items)] # None
            /\ ret.items[Len(ret.items)] # Panic("unwrap on an Err value: PosOverflow")
    /\ ret' = [lexer |-> next(ret.lexer).lexer,
               items |-> Append(ret.items, next(ret.lexer).item)]
    /\ UNCHANGED <<pc, call, overflow_checks>>

Next ==
    Binop \/ Eval \/ EvalIf \/ EvalBlock \/ EvalFunction \/ Execute \/ LexerNew \/ LexerNext

Spec == Init /\ [][Next]_vars

----------------------------------------------------------------------------
(* What the claims read of a state.                                         *)

Done(fn) == pc = "done" /\ call.fn = fn
EvalOf(type) == Done("eval") /\ call.expr.type = type

\* the arguments of the call expression of an eval state, evaluated
CallArgs ==
    eval_args(call.expr.expr_list, <<>>, call.globals, call.program, call.locals, call.buildins)

\* the calls the natives recorded since the function was applied
NewCalls == SubSeq(ret.buildins.calls, Len(call.buildins.calls) + 1, Len(ret.buildins.calls))

\* the host holds a Lexer
Lexing == pc = "lexing"
\* the lexer gave the end of its sequence
LexingEnded == Lexing /\ ret.items # <<>> /\ ret.items[Len(ret.items)] = None

\* an item is a token triple / a lexical error / neither (the thread panicked)
IsToken(item) == item # None /\ "some" \in DOMAIN item /\ item.value.tag = "Ok"
IsError(item) == item # None /\ "some" \in DOMAIN item /\ item.value.tag = "Err"

\* the items a Lexer gives from where it stands until its sequence ends
RECURSIVE Collect(_)
Collect(lexer) ==
    IF next(lexer).item = None THEN <<>>
    ELSE IF "some" \notin DOMAIN next(lexer).item THEN <<next(lexer).item>>
    ELSE <<next(lexer).item>> \o Collect(next(lexer).lexer)

\* the print calls made by the arguments of a call before the i-th one
RECURSIVE PrintsBefore(_, _)
PrintsBefore(expr_list, i) ==
    IF i <= 1 THEN <<>>
    ELSE PrintsBefore(expr_list, i - 1) \o
            (IF expr_list[i - 1].type = "Function"
             THEN <<[name |-> "print", args |-> <<expr_list[i - 1].expr_list[1].value>>]>>
             ELSE <<>>)

----------------------------------------------------------------------------
\* C1: once the arguments of a call name(args) are evaluated, a name of the
\* native table has the native invoked exactly once on the argument values
\* and the native's return value is the value of the call, whatever the
\* number of arguments and even when the program defines a function of that
\* name; any other name that the program defines has that function invoked
\* on the argument values; and a name that neither knows gives
\* UndefinedFunction(name). So a main that calls the undefined foo() makes
\* execute fail with UndefinedFunction("foo").
C1_DispatchOrder ==
    /\ (EvalOf("Function") /\ CallArgs.result.tag = "Ok") =>
          LET name == call.expr.name
              args == CallArgs.result.value
          IN IF name \in DOMAIN call.buildins.fns THEN
                 /\ ret.result = Ok(call.buildins.fns[name].returns)
                 /\ ret.buildins.calls =
                        Append(CallArgs.buildins.calls, [name |-> name, args |-> args])
                 /\ ret.buildins.fns = call.buildins.fns
             ELSE IF name \in DOMAIN call.program.functions THEN
                 LET f == eval_function(call.program.functions[name], args,
                                        CallArgs.globals, call.program, CallArgs.buildins)
                 IN /\ ret.result = f.result
                    /\ ret.buildins = f.buildins
             ELSE
                 /\ ret.result = Err(error(UndefinedFunction(name), call.expr.position))
                 /\ ret.buildins = CallArgs.buildins
    /\ (Done("execute") /\ "main" \in DOMAIN call.program.functions
            /\ call.program.functions["main"] = main_undefined) =>
          ret.result = Err(error(UndefinedFunction("foo"), 31))

\* a call of f with two arguments, f being a native and a one-parameter function
C1_NativeShadowsFunction ==
    /\ EvalOf("Function")
    /\ call.expr.name = "f"
    /\ "f" \in DOMAIN call.buildins.fns
    /\ "f" \in DOMAIN call.program.functions
    /\ Len(call.expr.expr_list) = 2
    /\ ret.result = Ok(I32(7))
    /\ Len(NewCalls) = 1

----------------------------------------------------------------------------
\* C2: reading a variable x gives the value globals binds to x whenever
\* globals binds x, also when x is a parameter of the function or was
\* assigned earlier in the invocation; it gives the value locals binds to x
\* only when globals does not bind x, and UndefinedVariable(x) when neither
\* map binds x.
C2_GlobalsShadowLocals ==
    /\ EvalOf("Var") =>
          LET x == call.expr.id
          IN ret.result =
                IF x \in DOMAIN call.globals THEN Ok(call.globals[x].value)
                ELSE IF x \in DOMAIN call.locals THEN Ok(call.locals[x].value)
                ELSE Err(error(UndefinedVariable(x), call.expr.position))
    \* x assigned earlier in the block whose trailing expression reads it
    /\ (Done("eval_block") /\ call.block.expr.type = "Var") =>
          LET x == call.block.expr.id
          IN /\ ret.result.tag = "Ok" =>
                   ret.result.value =
                      IF x \in DOMAIN call.globals THEN call.globals[x].value
                      ELSE ret.locals[x].value
             /\ ret.result = Err(error(UndefinedVariable(x), call.block.expr.position)) =>
                   x \notin DOMAIN call.globals \cup DOMAIN ret.locals
    \* x a parameter of the function whose body reads it
    /\ (Done("eval_function") /\ call.function = fn_id /\ Len(call.args) = 1) =>
          ret.result =
             IF "x" \in DOMAIN call.globals THEN Ok(call.globals["x"].value)
             ELSE Ok(call.args[1])

\* x is read where globals and locals bind it to different values
C2_ReadOfShadowedLocal ==
    /\ Done("eval_block")
    /\ call.block.expr = Var("x", 19)
    /\ Len(call.block.statements) > 0
    /\ "x" \in DOMAIN call.globals
    /\ "x" \in DOMAIN ret.locals
    /\ ret.locals["x"].value # call.globals["x"].value
    /\ ret.result = Ok(call.globals["x"].value)

----------------------------------------------------------------------------
\* C3: execution never modifies globals: whatever is evaluated, and whether
\* it ends with a value or a RuntimeError, the globals map afterwards has the
\* keys and values it had before; an assignment x = e to a key x of globals
\* changes locals only.
C3_GlobalsUnchanged ==
    /\ (pc = "done" /\ call.fn # "binop") => ret.globals = call.globals
    /\ (Done("eval_block") /\ Len(call.block.statements) = 1
            /\ call.block.statements[1] = Asgn("x", Value(I32(5), 11))) =>
          /\ ret.locals["x"] = Variable("x", I32(5))
          /\ \A id \in DOMAIN ret.locals \ {"x"} :
                id \in DOMAIN call.locals /\ ret.locals[id] = call.locals[id]

\* execute ran a main that assigns to x, a key of globals
C3_AssignmentToGlobalName ==
    /\ Done("execute")
    /\ "main" \in DOMAIN call.program.functions
    /\ call.program.functions["main"] = main_counter
    /\ "x" \in DOMAIN call.globals
    /\ ret.result.tag = "Ok"
    /\ ret.locals["x"].value = I32(10)
    /\ ret.globals["x"].value = I32(9)

----------------------------------------------------------------------------
\* C4: every invocation of a user function, recursive ones too, runs with a
\* locals map of its own that starts as exactly the function's parameters: a
\* function cannot read a local of its caller (the read is an
\* UndefinedVariable unless globals or a parameter binds the name), and when
\* the call returns the caller's locals are what they were before the call,
\* whatever the function assigned.
C4_FreshLocals ==
    \* the caller's map after a call whose arguments assign nothing
    /\ EvalOf("Function") => ret.locals = call.locals
    \* h reads y, which only its caller binds
    /\ (EvalOf("Function") /\ call.expr.name = "h" /\ call.expr.expr_list = <<>>
            /\ "h" \notin DOMAIN call.buildins.fns /\ "y" \notin DOMAIN call.globals) =>
          ret.result = Err(error(UndefinedVariable("y"), 71))
    \* the map of an invocation holds its parameters and what its body assigned
    /\ (Done("eval_function") /\ ret.result.tag = "Ok") =>
          DOMAIN ret.locals =
             {call.function.arguments[i].ident : i \in 1..Len(call.function.arguments)}
                \cup {st.id : st \in {s \in {call.function.block.statements[i] :
                                      i \in 1..Len(call.function.block.statements)} :
                                          s.type = "Asgn"}}
                \cup (IF call.function.name = "r" /\ call.args[1].i32 > 0 THEN {"m"} ELSE {})
                \cup (IF call.function.name = "w" THEN {"v"} ELSE {})
    \* r(n) keeps its n and m across the invocation r(n - 1): it gives n + ... + 1
    /\ (Done("eval_function") /\ call.function = fn_r /\ Len(call.args) = 1
            /\ IsI32(call.args[1])) =>
          LET n == call.args[1].i32
          IN /\ ret.result = Ok(I32((n * (n + 1)) \div 2))
             /\ n > 0 => ret.locals = MapOf({<<"n", I32(n)>>, <<"m", I32(n)>>})

\* f(1) assigned x in its own map while its caller binds x to another value
C4_CalleeAssignsCallersName ==
    /\ EvalOf("Function")
    /\ call.expr.name = "f"
    /\ "f" \notin DOMAIN call.buildins.fns
    /\ "x" \notin DOMAIN call.globals
    /\ "x" \in DOMAIN call.locals
    /\ ret.result = Ok(I32(1))
    /\ call.locals["x"].value # I32(1)
    /\ ret.locals = call.locals

----------------------------------------------------------------------------
\* C5: the operator table. Two ints take + - * / % and give an int, take
\* == != < <= > >= and give a bool, and give InvalidOpcode for && and ||; two
\* bools take == != && || and give a bool, and give InvalidOpcode for the
\* other opcodes; two strings take == != and give a bool, and give
\* InvalidOpcode for the other opcodes; any other pair of operands (two
\* kinds, a unit, an absent value) gives InvalidOperands whatever the opcode.
\* So 1 == "1" gives InvalidOperands and true && false gives false.
C5_Compared(opc, l, r) ==
    CASE opc = "Eq" -> l = r
      [] opc = "Ne" -> l # r
      [] opc = "Lt" -> l < r
      [] opc = "Le" -> l <= r
      [] opc = "Gt" -> l > r
      [] opc = "Ge" -> l >= r

C5_OperatorTable ==
    Done("binop") =>
        LET l == call.l
            r == call.r
            opc == call.opc
            invalid_opcode == ret.result = Err(error(InvalidOpcode, call.position))
            typed_pair == \/ (IsI32(l) /\ IsI32(r))
                          \/ (IsBOOL(l) /\ IsBOOL(r))
                          \/ (IsSTRING(l) /\ IsSTRING(r))
        IN /\ (IsI32(l) /\ IsI32(r)) =>
                 /\ opc \in {"Add", "Sub", "Mul", "Div", "Mod"} =>
                       (ret.result.tag = "Ok" /\ IsI32(ret.result.value))
                 /\ opc \in {"Eq", "Ne", "Lt", "Le", "Gt", "Ge"} =>
                       ret.result = Ok(BOOL(C5_Compared(opc, l.i32, r.i32)))
                 /\ opc \in {"And", "Or"} => invalid_opcode
           /\ (IsBOOL(l) /\ IsBOOL(r)) =>
                 /\ opc \in {"Eq", "Ne"} => ret.result = Ok(BOOL(C5_Compared(opc, l.bool, r.bool)))
                 /\ opc = "And" => ret.result = Ok(BOOL(l.bool /\ r.bool))
                 /\ opc = "Or" => ret.result = Ok(BOOL(l.bool \/ r.bool))
                 /\ opc \notin {"Eq", "Ne", "And", "Or"} => invalid_opcode
           /\ (IsSTRING(l) /\ IsSTRING(r)) =>
                 /\ opc \in {"Eq", "Ne"} =>
                       ret.result = Ok(BOOL(C5_Compared(opc, l.string, r.string)))
                 /\ opc \notin {"Eq", "Ne"} => invalid_opcode
           /\ ~typed_pair => ret.result = Err(error(InvalidOperands, call.position))
           /\ (l = I32(1) /\ opc = "Eq" /\ r = STR("1")) =>
                 ret.result = Err(error(InvalidOperands, call.position))
           /\ (l = BOOL(TRUE) /\ opc = "And" /\ r = BOOL(FALSE)) =>
                 ret.result = Ok(BOOL(FALSE))

----------------------------------------------------------------------------
\* C6: execute of a program without a function main gives the error NoMain
\* at position 0 and evaluates nothing (no native is invoked); with a main,
\* execute invokes it on the empty argument list and returns what the
\* invocation returns.
C6_EntryPoint ==
    Done("execute") =>
        IF "main" \in DOMAIN call.program.functions THEN
            ret = eval_function(call.program.functions["main"], <<>>,
                                call.globals, call.program, call.buildins)
        ELSE
            /\ ret.result = Err(error(NoMain, 0))
            /\ ret.buildins = call.buildins
            /\ ret.globals = call.globals

\* execute ran on the library, which has functions but no main
C6_NoMainAmongFunctions ==
    /\ Done("execute")
    /\ call.program = LibraryProgram
    /\ ret.result.tag = "Err"
    /\ ret.result.error.error_type = NoMain

----------------------------------------------------------------------------
\* C7: an invocation of a user function with a number of arguments other
\* than its number of parameters (the invocation of main by execute, with no
\* arguments, included) gives WrongNumberOfArguments(name of the function)
\* and evaluates nothing of the body; with the numbers equal, the i-th
\* parameter is bound in the new locals map to the i-th argument.
C7_Bound(function, args) ==
    [id \in {function.arguments[i].ident : i \in 1..Len(args)} |->
        Variable(id, args[CHOOSE i \in 1..Len(args) : function.arguments[i].ident = id])]

----------------------------------------------------------------------------
\* C8: the statements of a block run in order; an assignment x = e evaluates
\* e in the environment the statements before it left and then binds x in
\* locals to the value, in place of any binding x had, so that locals has one
\* binding for a name; the value of the block is its trailing expression
\* evaluated in the environment the statements left. So with x not bound in
\* globals the block { x = 5; x = x + 1; x } gives 6.
RECURSIVE C8_After(_, _)
\* the environment after the first n statements of the block of the state
C8_After(statements, n) ==
    IF n = 0 THEN Out(Ok(UNIT), call.globals, call.locals, call.buildins)
    ELSE LET e == eval(statements[n].expr, C8_After(statements, n - 1).globals,
                       call.program, C8_After(statements, n - 1).locals,
                       C8_After(statements, n - 1).buildins)
         IN IF statements[n].type = "Asgn" /\ e.result.tag = "Ok" THEN
                [e EXCEPT !.locals =
                    [id \in DOMAIN e.locals \cup {statements[n].id} |->
                        IF id = statements[n].id
                        THEN Variable(id, e.result.value) ELSE e.locals[id]]]
            ELSE e

C8_BlockInOrder ==
    /\ (Done("eval_block")
            /\ \A n \in 1..Len(call.block.statements) :
                  C8_After(call.block.statements, n).result.tag = "Ok") =>
          LET left == C8_After(call.block.statements, Len(call.block.statements))
          IN /\ ret = eval(call.block.expr, left.globals, call.program, left.locals,
                           left.buildins)
             \* (an if-expression among the statements may bind v as well)
             /\ DOMAIN ret.locals \ (IF call.block \in ScopeBlocks THEN {"v"} ELSE {}) =
                   (DOMAIN call.locals
                      \cup {st.id : st \in {s \in {call.block.statements[i] :
                                            i \in 1..Len(call.block.statements)} :
                                                s.type = "Asgn"}})
                      \ (IF call.block \in ScopeBlocks THEN {"v"} ELSE {})
    /\ (Done("eval_block")
            /\ call.block = Block(<<Asgn("x", Value(I32(5), 11)),
                                    Asgn("x", Op(Var("x", 12), "Add", Value(I32(1), 13), 14))>>,
                                  Var("x", 19))
            /\ "x" \notin DOMAIN call.globals) =>
          /\ ret.result = Ok(I32(6))
          /\ ret.locals["x"] = Variable("x", I32(6))
          /\ DOMAIN ret.locals = DOMAIN call.locals \cup {"x"}
    /\ (Done("execute") /\ "main" \in DOMAIN call.program.functions
            /\ call.program.functions["main"] = main_counter
            /\ "x" \notin DOMAIN call.globals) =>
          ret.result = Ok(I32(6))

\* { x = 5; x = x + 1; x } was evaluated where locals already bound x
C8_RebindsX ==
    /\ Done("eval_block")
    /\ Len(call.block.statements) = 2
    /\ call.block.statements[1] = Asgn("x", Value(I32(5), 11))
    /\ call.block.statements[2].type = "Asgn"
    /\ call.block.statements[2].expr.type = "Op"
    /\ call.block.expr = Var("x", 19)
    /\ "x" \in DOMAIN call.locals
    /\ "x" \notin DOMAIN call.globals
    /\ ret.result = Ok(I32(6))

----------------------------------------------------------------------------
\* C9: an if-expression evaluates its condition first. A condition whose
\* value is not a bool that is present gives BooleanExpected and no block is
\* evaluated; true has the if-block alone evaluated, whose value is the
\* result; false has the else block evaluated when there is one, the nested
\* if-expression evaluated when the else part is an else-if, and gives the
\* unit value when there is no else part. The block that is not selected is
\* never evaluated. So if true { 1 } else { 2 } gives 1 and
\* if false { 1 } else if true { 2 } else { 3 } gives 2.
C9_Marks == {c.args[1].string : c \in {NewCalls[i] : i \in 1..Len(NewCalls)}}

C9_IfSelectsOneBranch ==
    Done("eval_if") =>
        LET if_expr == call.if_expr
            c == eval(if_expr.condition, call.globals, call.program, call.locals,
                      call.buildins)
            selected(block) ==
                ret = eval_block(block, c.globals, call.program, c.locals, c.buildins)
            \* the blocks that print a mark and have not run
            untouched(marks) ==
                "print" \in DOMAIN call.buildins.fns => C9_Marks \cap marks = {}
        IN /\ c.result.tag # "Ok" => ret = c
           /\ (c.result.tag = "Ok" /\ ~IsBOOL(c.result.value)) =>
                 /\ ret.result = Err(error(BooleanExpected, call.position))
                 /\ ret.buildins = c.buildins
                 /\ ret.locals = c.locals
                 /\ untouched({"then", "else", "then2", "else2"})
           /\ (c.result.tag = "Ok" /\ IsBOOL(c.result.value) /\ c.result.value.bool) =>
                 /\ selected(if_expr.if_block)
                 /\ untouched({"else", "then2", "else2"})
           /\ (c.result.tag = "Ok" /\ IsBOOL(c.result.value) /\ ~c.result.value.bool) =>
                 /\ untouched({"then"})
                 /\ if_expr.else_part.type = "Else" => selected(if_expr.else_part.block)
                 /\ if_expr.else_part.type = "ElseIf" =>
                       ret = eval_if(if_expr.else_part.next_if, c.globals, call.program,
                                     c.locals, c.buildins, call.position)
                 /\ if_expr.else_part.type = "None" =>
                       ret = Out(Ok(UNIT), c.globals, c.locals, c.buildins)
           /\ if_expr = if_true_1_else_2 => ret.result = Ok(I32(1))
           /\ if_expr = if_false_1_else_if_true_2_else_3 => ret.result = Ok(I32(2))

\* a false condition, an else-if whose condition is true: its block ran alone
C9_ElseIfTaken ==
    /\ Done("eval_if")
    /\ call.if_expr.condition = Say("C", FALSE, 60)
    /\ call.if_expr.else_part.type = "ElseIf"
    /\ call.if_expr.else_part.next_if.condition = Value(BOOL(TRUE), 61)
    /\ ret.result = Ok(I32(2))
    /\ C9_Marks = {"C", "then2"}

----------------------------------------------------------------------------
\* C10: a binary operation evaluates its left operand completely before its
\* right operand and always evaluates both, whatever the opcode: for && and
\* || the native calls of the right operand happen also when the value of the
\* left operand decides the result.

\* the calls of print an operand makes when it is evaluated: say(side, b) and
\* print(side) print the side, a literal and a variable print nothing
C10_Trace(operand) ==
    IF operand.type = "Function"
    THEN <<[name |-> "print", args |-> <<STR(IF operand.position = 40 THEN "L" ELSE "R")>>]>>
    ELSE <<>>

\* the claim as made: both operands leave their calls, the left one first
C10_BothOperandsAlways ==
    (EvalOf("Op") /\ "print" \in DOMAIN call.buildins.fns) =>
        NewCalls = C10_Trace(call.expr.lhs) \o C10_Trace(call.expr.rhs)

\* C10 as amended: the left operand is evaluated completely before the right
\* one, and the right one is evaluated whenever the left one gave a value
\* (whatever the opcode and the value: no short circuit); a left operand that
\* fails ends the operation with its error and the right one is not evaluated.
C10_LeftThenRight ==
    /\ EvalOf("Op") =>
          LET l == eval(call.expr.lhs, call.globals, call.program, call.locals,
                        call.buildins)
              r == eval(call.expr.rhs, l.globals, call.program, l.locals, l.buildins)
          IN IF l.result.tag = "Ok"
             THEN /\ ret.buildins = r.buildins
                  /\ ret.locals = r.locals
                  /\ r.result.tag # "Ok" => ret = r
             ELSE ret = l
    /\ (EvalOf("Op") /\ "print" \in DOMAIN call.buildins.fns) =>
          IF call.expr.lhs = Var("z", 40)
          THEN /\ NewCalls = <<>>
               /\ ret.result = Err(error(UndefinedVariable("z"), 40))
          ELSE NewCalls = C10_Trace(call.expr.lhs) \o C10_Trace(call.expr.rhs)

\* false && say("R", true): the right operand printed though false decides &&
C10_NoShortCircuit ==
    /\ EvalOf("Op")
    /\ call.expr.opc = "And"
    /\ call.expr.lhs = Say("L", FALSE, 40)
    /\ call.expr.rhs = Say("R", TRUE, 50)
    /\ ret.result = Ok(BOOL(FALSE))
    /\ NewCalls = <<[name |-> "print", args |-> <<STR("L")>>],
                    [name |-> "print", args |-> <<STR("R")>>]>>

----------------------------------------------------------------------------
\* C11: evaluation fails fast. Once a sub-evaluation gives a RuntimeError,
\* nothing more is evaluated or invoked (no later statement, operand,
\* argument, branch or native) and the error is returned as it is, kind,
\* payload and position, up to the caller of execute: no value is returned
\* after an error and a later error never takes the place of the first.

C11_FailFast ==
    \* a block ends at its first failing statement, as that statement left things
    /\ Done("eval_block") =>
          \A k \in 1..Len(call.block.statements) :
              (/\ C8_After(call.block.statements, k).result.tag = "Err"
               /\ \A n \in 1..(k - 1) : C8_After(call.block.statements, n).result.tag = "Ok")
              => ret = C8_After(call.block.statements, k)
    \* a call ends at its first failing argument: the later arguments and the
    \* function are not evaluated, whatever the name
    /\ (EvalOf("Function") /\ "print" \in DOMAIN call.buildins.fns
            /\ "y" \notin DOMAIN call.globals \cup DOMAIN call.locals) =>
          \A i \in 1..Len(call.expr.expr_list) :
              (/\ call.expr.expr_list[i].type = "Var"
               /\ \A j \in 1..(i - 1) : call.expr.expr_list[j].type # "Var")
              => /\ ret.result = Err(error(UndefinedVariable("y"), 20 + i))
                 /\ NewCalls = PrintsBefore(call.expr.expr_list, i)
                 /\ ret.locals = call.locals
    \* a failing right operand ends the operation: the operator is not applied
    /\ (EvalOf("Op") /\ "print" \in DOMAIN call.buildins.fns
            /\ call.expr.lhs # Var("z", 40) /\ call.expr.rhs = Var("z", 50)) =>
          /\ ret.result = Err(error(UndefinedVariable("z"), 50))
          /\ NewCalls = C10_Trace(call.expr.lhs)
    \* a failing condition ends the if-expression: no block runs
    /\ (Done("eval_if") /\ call.if_expr.condition = Var("z", 60)) =>
          /\ ret.result = Err(error(UndefinedVariable("z"), 60))
          /\ NewCalls = <<>>
          /\ ret.locals = call.locals
    \* fail(1) stops at q: print("after") and the trailing expression never run
    /\ (Done("eval_function") /\ call.function = fn_fail /\ Len(call.args) = 1
            /\ "print" \in DOMAIN call.buildins.fns) =>
          /\ ret.result = Err(error(UndefinedVariable("q"), 133))
          /\ NewCalls = <<[name |-> "print", args |-> <<STR("in")>>]>>
    \* the error of fail(1) passes unchanged through the argument list, the
    \* call of g, the assignment, the block of main and execute
    /\ (Done("execute") /\ "main" \in DOMAIN call.program.functions
            /\ call.program.functions["main"] = main_failfast) =>
          IF "print" \in DOMAIN call.buildins.fns
          THEN /\ ret.result = Err(error(UndefinedVariable("q"), 133))
               /\ NewCalls = <<[name |-> "print", args |-> <<STR("start")>>],
                               [name |-> "print", args |-> <<STR("in")>>]>>
               /\ "t" \notin DOMAIN ret.locals
          ELSE /\ ret.result = Err(error(UndefinedFunction("print"), 122))
               /\ ret.locals = EmptyMap

\* execute returned the error of a statement of fail, two calls deep, with the
\* statements that precede it run and none that follow
C11_ErrorFromCalleeReachesHost ==
    /\ Done("execute")
    /\ "main" \in DOMAIN call.program.functions
    /\ call.program.functions["main"] = main_failfast
    /\ ret.result = Err(error(UndefinedVariable("q"), 133))
    /\ Len(NewCalls) = 2

----------------------------------------------------------------------------
\* C12: for every pair of 32-bit operands and each of + - * / %, the binary
\* operation returns: either a value of the 32-bit signed range (the quotient
\* truncated toward zero, the remainder with the sign of the dividend, so
\* 7 / 2 = 3 and 7 % 2 = 1) or a RuntimeError; evaluation never aborts, not
\* for a zero divisor, not for -2^31 / -1 or -2^31 % -1, not for a sum,
\* difference or product outside the 32-bit range.
C12_ArithmeticNeverAborts ==
    (Done("binop") /\ IsI32(call.l) /\ IsI32(call.r)
        /\ call.opc \in {"Add", "Sub", "Mul", "Div", "Mod"}) =>
        /\ ret.result.tag \in {"Ok", "Err"}
        /\ ret.result.tag = "Ok" =>
              /\ IsI32(ret.result.value)
              /\ ret.result.value.i32 \in I32_MIN..I32_MAX
        /\ (call.l = I32(7) /\ call.r = I32(2) /\ call.opc = "Div") =>
              ret.result = Ok(I32(3))
        /\ (call.l = I32(7) /\ call.r = I32(2) /\ call.opc = "Mod") =>
              ret.result = Ok(I32(1))

----------------------------------------------------------------------------
\* C15: the arguments of a call are evaluated left to right, each exactly
\* once, before the name is looked up among the natives or the program's
\* functions and before the arity check: when an argument fails, the call
\* gives that argument's error, also when the function is undefined or takes
\* another number of arguments; when none fails, the handler receives the
\* argument values in source order.

\* the value an argument of the call of the state has: a literal, the variable
\* y read from globals before locals, or the return value of the native print
C15_Value(e) ==
    CASE e.type = "Value" -> e.value
      [] e.type = "Var" ->
            IF e.id \in DOMAIN call.globals THEN call.globals[e.id].value
            ELSE call.locals[e.id].value
      [] e.type = "Function" -> call.buildins.fns["print"].returns

\* the argument cannot be evaluated: an unbound variable, or print where the
\* host registered no print
C15_Fails(e) ==
    \/ e.type = "Var" /\ e.id \notin DOMAIN call.globals \cup DOMAIN call.locals
    \/ e.type = "Function" /\ "print" \notin DOMAIN call.buildins.fns

C15_ArgumentsBeforeLookup ==
    EvalOf("Function") =>
        LET list == call.expr.expr_list
            name == call.expr.name
            n == Len(list)
            vals == [i \in 1..n |-> C15_Value(list[i])]
        IN /\ \A i \in 1..n :
                 (C15_Fails(list[i]) /\ \A j \in 1..(i - 1) : ~C15_Fails(list[j])) =>
                    /\ ret.result =
                          Err(error(IF list[i].type = "Var" THEN UndefinedVariable("y")
                                    ELSE UndefinedFunction("print"), 20 + i))
                    /\ NewCalls = PrintsBefore(list, i)
           /\ (\A i \in 1..n : ~C15_Fails(list[i])) =>
                 IF name \in DOMAIN call.buildins.fns THEN
                     NewCalls = PrintsBefore(list, n + 1) \o <<[name |-> name, args |-> vals]>>
                 ELSE IF name \in DOMAIN call.program.functions THEN
                     LET f == eval_function(call.program.functions[name], vals, call.globals,
                                            call.program,
                                            [call.buildins EXCEPT
                                                !.calls = @ \o PrintsBefore(list, n + 1)])
                     IN /\ ret.result = f.result
                        /\ ret.buildins = f.buildins
                        /\ n # Len(call.program.functions[name].arguments) =>
                              /\ ret.result.tag = "Err"
                              /\ ret.result.error.error_type = WrongNumberOfArguments(name)
                              /\ NewCalls = PrintsBefore(list, n + 1)
                 ELSE
                     /\ ret.result = Err(error(UndefinedFunction(name), call.expr.position))
                     /\ NewCalls = PrintsBefore(list, n + 1)

\* foo(print(1), y) with y unbound: print was called, and the error is that of
\* y, not the UndefinedFunction of foo
C15_FailingArgumentOfUndefinedFunction ==
    /\ EvalOf("Function")
    /\ call.expr.name = "foo"
    /\ Len(call.expr.expr_list) = 2
    /\ call.expr.expr_list[1].type = "Function"
    /\ call.expr.expr_list[2].type = "Var"
    /\ ret.result = Err(error(UndefinedVariable("y"), 22))
    /\ NewCalls = <<[name |-> "print", args |-> <<I32(1)>>]>>

----------------------------------------------------------------------------
\* C17: the blocks of an if-expression open no scope. An assignment made in
\* the selected if, else or else-if block writes to the locals map of the
\* enclosing invocation: after the if-expression the binding is read by the
\* statements that follow and by the trailing expression of the enclosing
\* block, and it replaces an earlier binding of the name. The bindings go
\* only when the invocation returns.

\* what the if-expression of a block of ScopeBlocks assigns to v: 3 in the if
\* block, 4 in the else block, 2 in the else-if block, nothing otherwise
C17_Assigned(if_expr) ==
    IF if_expr.condition.value.bool THEN <<3>>
    ELSE CASE if_expr.else_part.type = "Else" -> <<4>>
           [] if_expr.else_part.type = "ElseIf" -> <<2>>
           [] if_expr.else_part.type = "None" -> <<>>

C17_IfBlocksShareLocals ==
    /\ (Done("eval_block") /\ call.block \in ScopeBlocks) =>
          LET statements == call.block.statements
              before == IF statements[1].type = "Asgn" THEN <<5>> ELSE <<>>
              if_expr == (IF statements[1].type = "Asgn" THEN statements[2]
                          ELSE statements[1]).expr.if_expr
              after == IF C17_Assigned(if_expr) # <<>> THEN C17_Assigned(if_expr) ELSE before
              reads_after == statements[Len(statements)].type = "Asgn"
                                /\ statements[Len(statements)].id = "y"
          IN IF after = <<>> THEN
                 /\ ret.result = Err(error(UndefinedVariable("v"),
                                           IF reads_after THEN 15 ELSE 19))
                 /\ "v" \notin DOMAIN ret.locals
             ELSE
                 /\ ret.result = Ok(I32(after[1]))
                 /\ DOMAIN ret.locals =
                       DOMAIN call.locals \cup {"v"} \cup (IF reads_after THEN {"y"} ELSE {})
                 /\ ret.locals["v"] = Variable("v", I32(after[1]))
                 /\ reads_after => ret.locals["y"] = Variable("y", I32(after[1]))
    \* the map eval_if was given holds what the selected block assigned
    /\ (Done("eval_if") /\ call.if_expr.condition = Value(BOOL(TRUE), 60)
            /\ call.if_expr.if_block = Assigning(I32(3), 64)) =>
          /\ DOMAIN ret.locals = DOMAIN call.locals \cup {"x"}
          /\ ret.locals["x"] = Variable("x", I32(3))
          /\ \A id \in DOMAIN ret.locals \ {"x"} : ret.locals[id] = call.locals[id]
    \* w reads after its if-expression the v that the selected block assigned
    /\ (Done("eval_function") /\ call.function = fn_w /\ Len(call.args) = 1
            /\ IsI32(call.args[1])) =>
          LET n == call.args[1].i32
              v == IF n <= 0 THEN 1 ELSE IF n <= 1 THEN 2 ELSE 3
          IN /\ ret.result = Ok(I32(v))
             /\ ret.locals = MapOf({<<"n", I32(n)>>, <<"v", I32(v)>>})
    \* the v of w is gone once w returned: its caller cannot read it
    /\ (Done("execute") /\ "main" \in DOMAIN call.program.functions
            /\ call.program.functions["main"] = main_scope) =>
          /\ ret.result = Err(error(UndefinedVariable("v"), 163))
          /\ ret.locals = MapOf({<<"t", I32(2)>>})

\* { v = 5; if false { v = 3; 0 } else if true { v = 2; 0 }; y = v; v }: the
\* else-if block replaced the binding of v and y = v read the new one
C17_ElseIfBlockRebindsV ==
    /\ Done("eval_block")
    /\ call.block \in ScopeBlocks
    /\ Len(call.block.statements) = 3
    /\ call.block.statements[2].expr.if_expr.condition = Value(BOOL(FALSE), 60)
    /\ call.block.statements[2].expr.if_expr.else_part.type = "ElseIf"
    /\ ret.result = Ok(I32(2))
    /\ ret.locals["y"] = Variable("y", I32(2))

----------------------------------------------------------------------------
\* C13: every // outside a string literal starts a line comment: the lexer
\* gives no token and no error for the // nor for any character up to the
\* next newline (or the end of the text) and goes on after that newline. So
\* a text lexes to the tokens and errors of the same text with its comments
\* taken out; "// comment\n123" gives the one token DecLiteral(123) and a
\* text that is only a comment gives the empty sequence.

\* the text from its i-th character on, without its comments; in_string says
\* that the character is inside a string literal
RECURSIVE C13_Uncommented(_, _, _)
C13_Uncommented(src, i, in_string) ==
    IF i > Len(src) THEN <<>>
    ELSE IF in_string THEN <<src[i]>> \o C13_Uncommented(src, i + 1, src[i] # "\"")
    ELSE IF src[i] = "/" /\ i < Len(src) /\ src[i + 1] = "/" THEN
        IF \E j \in i..Len(src) : src[j] = "\n"
        THEN C13_Uncommented(src, CHOOSE j \in i..Len(src) :
                                      /\ src[j] = "\n"
                                      /\ \A k \in i..(j - 1) : src[k] # "\n", FALSE)
        ELSE <<>>
    ELSE <<src[i]>> \o C13_Uncommented(src, i + 1, src[i] = "\"")

\* the tokens and the characters of the errors of a sequence of items
C13_Unpositioned(items) ==
    [i \in 1..Len(items) |->
        IF IsToken(items[i]) THEN items[i].value.value.token
        ELSE IF IsError(items[i]) THEN items[i].value.error.char
        ELSE items[i]]

C13_CommentsSkipped ==
    LexingEnded =>
        /\ C13_Unpositioned(SubSeq(ret.items, 1, Len(ret.items) - 1)) =
              C13_Unpositioned(Collect(new(C13_Uncommented(call.src, 1, FALSE))))
        /\ call.src = src_comment_then_123 =>
              ret.items = <<Some(Ok(Triple(11, DecLiteral(123), 14))), None>>
        /\ call.src = src_comments_lexer => ret.items = <<None>>

----------------------------------------------------------------------------
\* C14: every step of the lexer gives a token triple, a lexical Error or the
\* end of the sequence; a maximal run of one or more decimal digits is given
\* as one DecLiteral token whose i32 value is the decimal number written and
\* whose span is exactly the run, whatever the length and the value of the
\* run.

\* the decimal digits of n >= 0, as written without leading zeros
RECURSIVE C14_Decimal(_)
C14_Decimal(n) ==
    IF n < 10 THEN <<Digits[n + 1]>> ELSE C14_Decimal(n \div 10) \o <<Digits[(n % 10) + 1]>>

\* a run of digits without its leading zeros (the last digit stays)
RECURSIVE C14_Significant(_)
C14_Significant(run) ==
    IF Len(run) > 1 /\ Head(run) = "0" THEN C14_Significant(Tail(run)) ELSE run

C14_EveryStepYields ==
    Lexing =>
        LET src == call.src
            char_at(offset) == CHOOSE i \in 1..(Len(src) + 1) : byte_offset(src, i) = offset
        IN /\ \A i \in 1..Len(ret.items) :
                 \/ ret.items[i] = None
                 \/ IsError(ret.items[i])
                 \/ IsToken(ret.items[i])
           \* a DecLiteral is a maximal run of digits, and has its value
           /\ \A i \in 1..Len(ret.items) :
                 (IsToken(ret.items[i])
                     /\ ret.items[i].value.value.token.kind = "DecLiteral") =>
                    LET t == ret.items[i].value.value
                        run == SubSeq(src, char_at(t.start), char_at(t.end) - 1)
                    IN /\ run # <<>>
                       /\ \A k \in 1..Len(run) : is_dec_digit(run[k])
                       /\ char_at(t.end) <= Len(src) => ~is_dec_digit(src[char_at(t.end)])
                       /\ t.token.int \in 0..I32_MAX
                       /\ C14_Decimal(t.token.int) = C14_Significant(run)
           \* a text that is one run of digits is one DecLiteral
           /\ (src # <<>> /\ ret.items # <<>> /\ \A k \in 1..Len(src) : is_dec_digit(src[k])) =>
                 /\ IsToken(ret.items[1])
                 /\ ret.items[1].value.value.start = 0
                 /\ ret.items[1].value.value.end = Len(src)
                 /\ ret.items[1].value.value.token.kind = "DecLiteral"
           /\ (src = src_dec_literal_lexer /\ ret.items # <<>>) =>
                 ret.items[1] = Some(Ok(Triple(0, DecLiteral(123), 3)))

----------------------------------------------------------------------------
\* C16: the token triples (start, token, end) the lexer gives are half-open
\* byte spans inside the source text, in the order of the text: each has
\* 0 <= start < end <= the length of the text, and each token starts at or
\* after the end of the tokens given before it. This holds for every kind of
\* token, and for a string literal whose closing quote is missing, which
\* spans from its opening quote to the end of the text.
C16_SpansInsideSource ==
    Lexing =>
        LET tokens == {i \in 1..Len(ret.items) : IsToken(ret.items[i])}
            span(i) == ret.items[i].value.value
        IN /\ \A i \in tokens :
                 /\ 0 <= span(i).start
                 /\ span(i).start < span(i).end
                 /\ span(i).end <= src_len(call.src)
           /\ \A i, j \in tokens : i < j => span(j).start >= span(i).end
           /\ (call.src = <<"\"", "a">> /\ ret.items # <<>>) =>
                 ret.items[1] = Some(Ok(Triple(0, StringValue(<<"a">>), 2)))
           /\ (call.src = src_string_lexer /\ ret.items # <<>>) =>
                 ret.items[1] =
                    Some(Ok(Triple(0, StringValue(SubSeq(src_string_lexer, 2, 12)), 13)))

====
